---- MODULE Spec2Model ----
(***************************************************************************)
(* srec2inc: conversion of a Freescale DSP563xx S-record image into a C    *)
(* include file of PPP packets.  The model follows main() and              *)
(* buildIncFile() of srec2inc.cpp and atoh<T>() of atoh.cpp.               *)
(*                                                                         *)
(* Characters are one-character strings, C strings are sequences of them.  *)
(* An input line is kept as its fields (record type, count field, address  *)
(* field, memory space field); payload byte k of an S2 line is the pair of *)
(* characters at line offset 10+2(k-1) and is identified by k.             *)
(***************************************************************************)
EXTENDS Integers, Sequences, FiniteSets, TLC

VARIABLES
    pc,           \* position in main() / buildIncFile()
    argv,         \* arguments not yet processed (argv[1..argc-1])
    packet_size,  \* main: int32_t packet_size
    n_raw,        \* the value line 74 stored in packet_size before the range tests
    n_flag, i_flag, o_flag,
    in_open, out_open,   \* f_in.is_open(), f_out.is_open()
    exit_status,  \* the status the process ended with (meaningful when pc = "exit")
    ret,          \* the value buildIncFile returned (meaningful once it has returned)
    err,          \* the error buildIncFile reported on stderr, "none" if none
    header,       \* the static header has been written to the output
    mem_space,    \* static int mem_space
    line,         \* the text at the line cursor, as fields
    line_off,     \* line - line_base
    eof,          \* in.eof()
    s2_lines,     \* history: the S2 lines extracted from the input so far, in order
    last_s0,      \* history: the memory space field of the last S0 line extracted,
                  \*   <<>> when none was, or an S8 or unsupported line came after it
    named,        \* history: an S0 line whose field has the value 1, 2 or 4 was
                  \*   extracted, and no S8 or unsupported line after it
    rec_len, write_cnt, offset_cnt,
    tmp_address,  \* the string in the tmp_address buffer
    out,          \* the packets written to the output, in order
    atoh_string,  \* SpecAtoh: the argument of the call atoh<T>(string)
    atoh_bytes,   \* SpecAtoh: sizeof(T)
    atoh_value    \* SpecAtoh: the value the call returned, <<>> before it returns

vars == <<pc, argv, packet_size, n_raw, n_flag, i_flag, o_flag, in_open, out_open,
          exit_status, ret, err, header, mem_space, line, line_off, eof, s2_lines, last_s0, named,
          rec_len, write_cnt, offset_cnt, tmp_address, out,
          atoh_string, atoh_bytes, atoh_value>>

atohVars == <<atoh_string, atoh_bytes, atoh_value>>
mainVars == <<argv, packet_size, n_raw, n_flag, i_flag, o_flag, in_open, out_open>>
loopVars == <<rec_len, write_cnt, offset_cnt, tmp_address>>

----------------------------------------------------------------------------
(* Bounds of the model *)

\* longest -N digit string explored by SpecArgs
MaxDigits == 9
\* number of command line arguments
MaxArgs == 3
\* sum of the byte count fields of the S2 lines of the input
MaxInputBytes == 17
\* largest byte count field of an S2 line
MaxByteCount == 17
\* how far below zero rec_len is followed
MaxUnderrun == 4
\* longest run of hex digits in the strings given to atoh by SpecAtoh
MaxAtohDigits == 17
\* number of S2 lines in the inputs of the scenario specification
MaxScenarioRecs == 1

----------------------------------------------------------------------------
(* Characters and C arithmetic *)

UpperHex == <<"0","1","2","3","4","5","6","7","8","9","A","B","C","D","E","F">>

\* the value of a hex digit character as atoh and scanf see it, -1 for other characters
DigitOf(ch) ==
    CASE ch = "0" -> 0 [] ch = "1" -> 1 [] ch = "2" -> 2 [] ch = "3" -> 3
      [] ch = "4" -> 4 [] ch = "5" -> 5 [] ch = "6" -> 6 [] ch = "7" -> 7
      [] ch = "8" -> 8 [] ch = "9" -> 9
      [] ch = "A" -> 10 [] ch = "B" -> 11 [] ch = "C" -> 12
      [] ch = "D" -> 13 [] ch = "E" -> 14 [] ch = "F" -> 15
      [] ch = "a" -> 10 [] ch = "b" -> 11 [] ch = "c" -> 12
      [] ch = "d" -> 13 [] ch = "e" -> 14 [] ch = "f" -> 15
      [] OTHER -> -1

\* an unsigned integer of w bits is kept as its w/4 hex digits, most significant
\* first, so that a shift by four bits drops the top digit as the machine does
Zero(width) == [k \in 1..(width \div 4) |-> 0]
ShiftAdd(value, digit) == Append(Tail(value), digit)    \* (value << 4) + digit

RECURSIVE NatOf(_)
NatOf(value) == IF value = <<>> THEN 0
                ELSE NatOf(SubSeq(value, 1, Len(value) - 1)) * 16 + value[Len(value)]

\* conversion of a uint32_t (eight digits) to int32_t
ToInt32(value) == IF value[1] >= 8
                  THEN (value[1] - 16) * (2^28) + NatOf(Tail(value))
                  ELSE NatOf(value)

\* C's / and % truncate towards zero (b > 0)
CDiv(a, b) == IF a >= 0 THEN a \div b ELSE -((-a) \div b)
CRem(a, b) == IF a >= 0 THEN a % b ELSE -((-a) % b)

\* the loop without the test of bail
RECURSIVE atohNoBail(_, _, _, _)
atohNoBail(string, i, value, bail) ==
    IF i > Len(string) THEN value
    ELSE IF DigitOf(string[i]) < 0 THEN value
    ELSE atohNoBail(string, i + 1, ShiftAdd(value, DigitOf(string[i])), bail)

RECURSIVE atohLoop(_, _, _, _)
atohLoop(string, i, value, bail) ==
    IF i > Len(string) THEN value                       \* ch = 0 ends the loop
    ELSE IF DigitOf(string[i]) < 0 THEN value           \* break on a non-hex character
    ELSE IF bail = 0 THEN value                         \* "Template overflow", break
    ELSE atohLoop(string, i + 1, ShiftAdd(value, DigitOf(string[i])), bail - 1)

\* atoh<T>(string) with sizeof(T) = bytes
atoh(string, bytes) == atohLoop(string, 1, Zero(8 * bytes), 2 * bytes)

\* the packet size main keeps for the value v that line 74 stored (lines 75-84)
NoMinimum(v) == IF CRem(v, 3) # 0 THEN 18 ELSE v
KeepsBadSize(v) == IF v < 9 THEN 18 ELSE v
CheckedSize(v) == IF CRem(v, 3) # 0 THEN 18 ELSE IF v < 9 THEN 18 ELSE v

CheckedFlag(v) == IF CRem(v, 3) # 0 THEN "FLAG_FAILED" ELSE "FLAG_OK"

----------------------------------------------------------------------------
(* Command lines *)

Arg(f, v, o) == [flag |-> f, val |-> v, opens |-> o]

\* digit strings over a small alphabet: 0, 1, F and a character that is no hex digit
Strings(S, n) == UNION {[1..k -> S] : k \in 0..n}
HexRuns == Strings({"0", "1", "F"}, MaxDigits)
NStringsBig == HexRuns \cup {Append(s, "g") : s \in Strings({"0", "F"}, 2)}
                       \cup {s \o <<"g", "F">> : s \in Strings({"0", "F"}, 1)}

\* the -N strings of the whole-program specification: 9, and 10 (not divisible by 3)
NStringsSmall == {<<"9">>, <<"A">>}

\* an input path that opens and one that does not, an output path that does not
\* open, and an unknown option
FileArgs == {Arg("I", <<>>, TRUE), Arg("i", <<>>, FALSE),
             Arg("O", <<>>, FALSE), Arg("x", <<>>, FALSE)}

ArgSetSmall == {Arg("N", s, FALSE) : s \in NStringsSmall} \cup FileArgs
ArgvSmall == UNION {[1..k -> ArgSetSmall] : k \in 0..MaxArgs}

\* the command lines of SpecArgs: the long digit strings, output paths that open
ArgSetBig == ArgSetSmall \cup {Arg("o", <<>>, TRUE), Arg("N", <<"1", "8">>, FALSE)}
ArgvBig == {<<Arg("I", <<>>, TRUE), Arg("n", s, FALSE)>> : s \in NStringsBig}
           \cup UNION {[1..k -> ArgSetBig] : k \in 0..MaxArgs}

NoLine == [type |-> "", len |-> <<>>, addr |-> <<>>, code |-> <<>>]

\* the program before main runs on one of the command lines args
InitProgram(args) ==
    /\ pc = "args"
    /\ argv \in args
    /\ packet_size = 18
    /\ n_raw = 18
    /\ n_flag = "FLAG_NOT_PRESENT"
    /\ i_flag = "FLAG_NOT_PRESENT"
    /\ o_flag = "FLAG_NOT_PRESENT"
    /\ in_open = FALSE
    /\ out_open = FALSE
    /\ exit_status = 0
    /\ ret = 0
    /\ err = "none"
    /\ header = FALSE
    /\ mem_space = 0
    /\ line = NoLine
    /\ line_off = 0
    /\ eof = FALSE
    /\ s2_lines = <<>>
    /\ last_s0 = <<>>
    /\ named = FALSE
    /\ rec_len = 0
    /\ write_cnt = 0
    /\ offset_cnt = 0
    /\ tmp_address = <<>>
    /\ out = <<>>

InitWith(args) ==
    /\ InitProgram(args)
    /\ atoh_string = <<>>
    /\ atoh_bytes = 4
    /\ atoh_value = <<>>

Init == InitWith(ArgvSmall)
InitArgs == InitWith(ArgvBig)

\* number of S2 lines extracted from the input so far
nS2 == Len(s2_lines)

buildVars == <<ret, err, header, mem_space, line, line_off, eof, s2_lines, last_s0, named,
               rec_len, write_cnt, offset_cnt, tmp_address, out>>

----------------------------------------------------------------------------
(* main() *)

Last(s) == s[Len(s)]
Front(s) == SubSeq(s, 1, Len(s) - 1)

\* case 'N', 'n'
ArgN ==
    /\ pc = "args" /\ argv # <<>>
    /\ Last(argv).flag \in {"N", "n"}
    /\ LET v == ToInt32(atoh(Last(argv).val, 4)) IN
         /\ n_raw' = v
         /\ packet_size' = CheckedSize(v)
         /\ n_flag' = CheckedFlag(v)
    /\ argv' = Front(argv)
    /\ UNCHANGED <<pc, i_flag, o_flag, in_open, out_open, exit_status>>
    /\ UNCHANGED buildVars
    /\ UNCHANGED atohVars

\* case 'I', 'i': open() fails on a path that cannot be opened and on a stream
\* that is already open
ArgI ==
    /\ pc = "args" /\ argv # <<>>
    /\ Last(argv).flag \in {"I", "i"}
    /\ LET ok == Last(argv).opens /\ ~in_open IN
         /\ i_flag' = IF ok THEN "FLAG_OK" ELSE "FLAG_FAILED"
         /\ in_open' = (in_open \/ ok)
    /\ argv' = Front(argv)
    /\ UNCHANGED <<pc, packet_size, n_raw, n_flag, o_flag, out_open, exit_status>>
    /\ UNCHANGED buildVars
    /\ UNCHANGED atohVars

\* case 'O', 'o'
ArgO ==
    /\ pc = "args" /\ argv # <<>>
    /\ Last(argv).flag \in {"O", "o"}
    /\ LET ok == Last(argv).opens /\ ~out_open IN
         /\ o_flag' = IF ok THEN "FLAG_OK" ELSE "FLAG_FAILED"
         /\ out_open' = (out_open \/ ok)
    /\ argv' = Front(argv)
    /\ UNCHANGED <<pc, packet_size, n_raw, n_flag, i_flag, in_open, exit_status>>
    /\ UNCHANGED buildVars
    /\ UNCHANGED atohVars

\* default: exit(1)
ArgUnknown ==
    /\ pc = "args" /\ argv # <<>>
    /\ Last(argv).flag \notin {"N", "n", "I", "i", "O", "o"}
    /\ pc' = "exit"
    /\ exit_status' = 1
    /\ UNCHANGED mainVars
    /\ UNCHANGED atohVars
    /\ UNCHANGED buildVars
    /\ UNCHANGED atohVars

\* after the argument loop: the flags are validated and the default output is opened
CheckFlags ==
    /\ pc = "args" /\ argv = <<>>
    /\ \E default_opens \in BOOLEAN :
         IF i_flag # "FLAG_OK"
         THEN /\ pc' = "exit" /\ exit_status' = 1
              /\ out_open' = FALSE /\ UNCHANGED in_open
         ELSE IF o_flag = "FLAG_FAILED"
         THEN /\ pc' = "exit" /\ exit_status' = 1
              /\ in_open' = FALSE /\ UNCHANGED out_open
         ELSE IF o_flag = "FLAG_NOT_PRESENT" /\ ~default_opens
         THEN /\ pc' = "exit" /\ exit_status' = 1
              /\ UNCHANGED <<in_open, out_open>>
         ELSE /\ pc' = "build" /\ UNCHANGED exit_status
              /\ out_open' = TRUE /\ UNCHANGED in_open
    /\ UNCHANGED <<argv, packet_size, n_raw, n_flag, i_flag, o_flag>>
    /\ UNCHANGED buildVars
    /\ UNCHANGED atohVars

NextArgs == ArgN \/ ArgI \/ ArgO \/ ArgUnknown \/ CheckFlags

SpecArgs == InitArgs /\ [][NextArgs]_vars

----------------------------------------------------------------------------
(* Input lines *)

\* the two hex digits of a byte
Hex2(n) == <<UpperHex[(n \div 16) + 1], UpperHex[(n % 16) + 1]>>

S0Line(c) == [type |-> "S0", len |-> <<>>, addr |-> <<>>, code |-> c]
S2Line(l, a) == [type |-> "S2", len |-> l, addr |-> a, code |-> <<>>]
S8Line == [type |-> "S8", len |-> <<>>, addr |-> <<>>, code |-> <<>>]
\* a line with another prefix; also what the cursor shows once it has moved into a line
OtherLine == [type |-> "other", len |-> <<>>, addr |-> <<>>, code |-> <<>>]

\* memory space fields: X, Y, P, a hex value that names no space, and two fields
\* with a character that is no hex digit
S0Codes == {<<"0","1">>, <<"0","2">>, <<"0","4">>, <<"0","3">>, <<"g","0">>, <<"1","g">>}

Addr0 == <<"0","0","1","2","3","4">>
Addrs == {Addr0,
          <<"0","0","0","0","0","0">>,
          <<"0","0","a","b","c","d">>,
          <<"F","F","F","F","F","E">>}

\* byte counts: 3 (one byte short of an empty payload), 4 (empty payload), payloads
\* of 1, 3 and 4 bytes, and the payloads that fill a packet of the default size
\* and exceed it by one byte
ByteCounts == {3, 4, 5, 7, 8} \cup ((MaxByteCount - 1)..MaxByteCount)

S0Lines == {S0Line(c) : c \in S0Codes}
S2Lines == {S2Line(Hex2(n), Addr0) : n \in ByteCounts}
           \cup {S2Line(Hex2(MaxByteCount), a) : a \in Addrs}

\* the fields of a line of text: memcpy(type, line+6, 2), memcpy(len, line+2, 2),
\* memcpy(tmp_address, line+4, 6)
CountField(text) == SubSeq(text, 3, 4)
WrongSpaceField(text) == SubSeq(text, 3, 4)
SpaceField(text) == SubSeq(text, 7, 8)
AddressField(text) == SubSeq(text, 5, 10)

\* the S0 and S2 lines of end-to-end scenario 1, and an S0 line that has 02 where
\* the memory space is read
Scenario1S0Text == <<"S","0","0","3","0","0","0","0","F","C">>
Scenario1YText == <<"S","0","0","3","0","0","0","2","F","A">>
Scenario1S2Text == <<"S","2","1","5","0","0","1","2","3","4">>
                   \o <<"0","0","0","1","0","2","0","3","0","4","0","5","0","6","0","7","0","8","0","9">>
                   \o <<"A","1">>
Scenario1S0 == S0Line(SpaceField(Scenario1S0Text))
Scenario1Y == S0Line(SpaceField(Scenario1YText))
Scenario1S2 == S2Line(CountField(Scenario1S2Text), AddressField(Scenario1S2Text))

----------------------------------------------------------------------------
(* scanf and printf conversions *)

\* the leading run of hex digits of a string, as digit values
RECURSIVE HexRun(_)
HexRun(str) == IF str = <<>> \/ DigitOf(Head(str)) < 0 THEN <<>>
               ELSE <<DigitOf(Head(str))>> \o HexRun(Tail(str))

\* sscanf_s(str, "%x", &var): var keeps its value when no digit is matched
Sscanf(str, old) == IF HexRun(str) = <<>> THEN old ELSE NatOf(HexRun(str))

RECURSIVE HexStr(_)
HexStr(n) == IF n < 16 THEN <<UpperHex[n + 1]>>
             ELSE Append(HexStr(n \div 16), UpperHex[(n % 16) + 1])

RECURSIVE Pad(_, _)
Pad(str, w) == IF Len(str) >= w THEN str ELSE Pad(<<"0">> \o str, w)

\* "%02X" and "%06X" of an int; a negative int prints as eight digits
FmtX(n, w) == IF n >= 0 THEN Pad(HexStr(n), w)
              ELSE <<"F">> \o Pad(HexStr((2^28 - 1) + n + 1), 7)

\* number of leading '0' characters among the first six of the address string
RECURSIVE LeadingZeros(_, _)
LeadingZeros(str, i) == IF i > 6 \/ i > Len(str) \/ str[i] # "0" THEN 0
                        ELSE 1 + LeadingZeros(str, i + 1)

----------------------------------------------------------------------------
(* Packets *)

HeaderByte(space) == CASE space = 2 -> "0xC6" [] space = 1 -> "0xC5" [] space = 4 -> "0xC4"
                     [] OTHER -> "none"
SwappedPrefix(space) == CASE space = 2 -> "PPP_X" [] space = 1 -> "PPP_Y" [] space = 4 -> "PPP_P"
                     [] OTHER -> "none"
NamePrefix(space) == CASE space = 2 -> "PPP_Y" [] space = 1 -> "PPP_X" [] space = 4 -> "PPP_P"
                     [] OTHER -> "none"

\* the value of <name>_LEN
LenConst(len, pkt_size) == IF (len + 6) <= pkt_size THEN len + 6 ELSE pkt_size

\* the word count of the first packet and of a continuation packet
FirstWords(len, pkt_size) ==
    IF (len + 6) <= pkt_size THEN CDiv(len, 3) ELSE CDiv(pkt_size - 6, 3)
NextWords(len, pkt_size) ==
    IF (len + 6) < pkt_size THEN CDiv(len, 3) ELSE CDiv(pkt_size - 6, 3)

\* the address of the packet after one that wrote cnt bytes
NewAddress(address, cnt) == Sscanf(address, 0) + CDiv(cnt, 3)

\* the length constant and the array opened for one packet: name, header, address
Packet(space, address, len, words, pkt_size) ==
    [prefix |-> NamePrefix(space),
     suffix |-> SubSeq(address, LeadingZeros(address, 1) + 1, Len(address)),
     len    |-> LenConst(len, pkt_size),
     hdr    |-> HeaderByte(space),
     wc     |-> FmtX(words, 2),
     addr   |-> SubSeq(address, 1, 6),
     bytes  |-> <<>>,
     closed |-> FALSE,
     rec    |-> nS2]

\* the spaces for which the if chains of lines 273-316 write a packet
ZeroIsKnown(space) == space \in {0, 1, 2, 4}
KnownSpace(space) == space \in {1, 2, 4}

----------------------------------------------------------------------------
(* buildIncFile() *)

\* lines 160-187: the line buffer is allocated and the static header written
BuildStart ==
    /\ pc = "build"
    /\ \E alloc_ok \in BOOLEAN :
         IF alloc_ok
         THEN /\ header' = TRUE /\ pc' = "read" /\ UNCHANGED <<ret, err>>
         ELSE /\ ret' = -1 /\ err' = "alloc" /\ pc' = "closing" /\ UNCHANGED header
    /\ UNCHANGED mainVars
    /\ UNCHANGED atohVars
    /\ UNCHANGED <<exit_status, mem_space, line, line_off, eof,
                   s2_lines, last_s0, named, out>>
    /\ UNCHANGED loopVars

\* the sum of the byte count fields of S2 lines
RECURSIVE InputBytes(_)
InputBytes(ls) ==
    IF ls = <<>> THEN 0 ELSE InputBytes(Tail(ls)) + Sscanf(Head(ls).len, 0)

\* a line that names a memory space: an S0 line whose field has the value 1, 2 or 4
NamesSpace(l) == l.type = "S0" /\ Sscanf(l.code, 0) \in {1, 2, 4}

\* in >> line extracts the line l; the stream is at its end (last) when nothing
\* follows the line
ExtractLine(l, last) ==
    /\ pc = "read"
    /\ line' = l
    /\ eof' = last
    /\ IF l.type = "S2"
       THEN /\ s2_lines' = Append(s2_lines, l)
            /\ UNCHANGED <<last_s0, named>>
       ELSE /\ last_s0' = l.code
            /\ named' = (NamesSpace(l) \/ (l.type = "S0" /\ named))
            /\ UNCHANGED s2_lines

\* the inputs explored: the byte counts of the S2 lines sum to at most MaxInputBytes
Extract(l, last) ==
    /\ pc = "read"
    /\ l.type = "S2" => InputBytes(Append(s2_lines, l)) <= MaxInputBytes
    /\ ExtractLine(l, last)

\* in >> line at the end of the input (empty input, or white space after the last
\* line): nothing is extracted.  The library either leaves the buffer as it is or
\* stores an empty string; after an S2 line the cursor is inside that line.
\* what the cursor shows when the buffer was left as it is (keeps) or an empty
\* string was stored: an S0 or S8 line is still at the cursor, an S2 line is not,
\* because the cursor has moved to its payload
StaleLine(l, keeps) == IF keeps THEN l ELSE OtherLine
ShownLine(l, keeps) == IF keeps /\ l.type \in {"S0", "S8"} THEN l ELSE OtherLine

ExtractNothing(keeps) ==
    /\ pc = "read"
    /\ line' = ShownLine(line, keeps)
    /\ eof' = TRUE
    /\ UNCHANGED <<s2_lines, last_s0, named>>

\* lines 525-529: while(!in.eof()), and the return of 0 after the loop
LoopExit(e) == IF e THEN "closing" ELSE "read"

\* lines 195-213: S0, the memory space switch
DoS0 ==
    /\ line'.type = "S0"
    /\ \E alloc_ok \in BOOLEAN :
         IF alloc_ok
         THEN /\ mem_space' = Sscanf(line'.code, mem_space)
              /\ pc' = LoopExit(eof')
              /\ ret' = 0
              /\ UNCHANGED err
         ELSE /\ ret' = -1 /\ err' = "alloc" /\ pc' = "closing"
              /\ UNCHANGED mem_space
    /\ UNCHANGED mainVars
    /\ UNCHANGED atohVars
    /\ UNCHANGED <<exit_status, header, line_off, out>>
    /\ UNCHANGED loopVars

\* lines 513-517: S8, the end of file record
KeepSpaceS8 ==
    /\ line'.type = "S8"
    /\ pc' = LoopExit(eof')
    /\ ret' = 0
    /\ UNCHANGED mainVars
    /\ UNCHANGED atohVars
    /\ UNCHANGED <<exit_status, err, header, line_off, out, mem_space>>
    /\ UNCHANGED loopVars
DoS8 ==
    /\ line'.type = "S8"
    /\ mem_space' = 0
    /\ pc' = LoopExit(eof')
    /\ ret' = 0
    /\ UNCHANGED mainVars
    /\ UNCHANGED atohVars
    /\ UNCHANGED <<exit_status, err, header, line_off, out>>
    /\ UNCHANGED loopVars

\* lines 519-523: a record that is not supported
DoOther ==
    /\ line'.type \notin {"S0", "S2", "S8"}
    /\ mem_space' = 0
    /\ pc' = LoopExit(eof')
    /\ ret' = 0
    /\ UNCHANGED mainVars
    /\ UNCHANGED atohVars
    /\ UNCHANGED <<exit_status, err, header, line_off, out>>
    /\ UNCHANGED loopVars

\* lines 215-365: S2, up to the address bytes of the first packet
DoS2 ==
    /\ line'.type = "S2"
    /\ \E alloc_ok \in BOOLEAN :
         LET len == Sscanf(line'.len, 0) - 4 IN
         IF ~alloc_ok
         THEN /\ ret' = -1 /\ err' = "alloc" /\ pc' = "closing"
              /\ UNCHANGED <<line_off, out>>
              /\ UNCHANGED loopVars
         ELSE IF ~KnownSpace(mem_space)
         THEN /\ ret' = -1 /\ err' = "memspace" /\ pc' = "closing"
              /\ line_off' = line_off + 4
              /\ rec_len' = len
              /\ tmp_address' = line'.addr
              /\ UNCHANGED <<out, write_cnt, offset_cnt>>
         ELSE /\ line_off' = line_off + 10
              /\ rec_len' = len
              /\ write_cnt' = 0
              /\ offset_cnt' = 0
              /\ tmp_address' = line'.addr
              /\ out' = Append(out, [Packet(mem_space, line'.addr, len,
                                            FirstWords(len, packet_size), packet_size)
                                     EXCEPT !.rec = Len(s2_lines')])
              /\ pc' = "s2loop"
              /\ UNCHANGED <<ret, err>>
    /\ UNCHANGED mainVars
    /\ UNCHANGED atohVars
    /\ UNCHANGED <<exit_status, header, mem_space>>

\* one pass of the do loop of lines 189-525 for an S0 line
ReadS0 == (\E l \in S0Lines, last \in BOOLEAN : Extract(l, last)) /\ DoS0

\* one pass of the loop for an S8 line
ReadS8 == (\E last \in BOOLEAN : Extract(S8Line, last)) /\ DoS8

\* one pass of the loop for a line that is not supported
ReadOther == (\E last \in BOOLEAN : Extract(OtherLine, last)) /\ DoOther

\* the pass of the loop for an S2 line, up to the inner loop
ReadS2 == (\E l \in S2Lines, last \in BOOLEAN : Extract(l, last)) /\ DoS2

\* the pass of the loop in which nothing was extracted: what the cursor shows is
\* handled as a line
ReadNothing ==
    /\ \E keeps \in BOOLEAN : ExtractNothing(keeps)
    /\ DoS0 \/ DoS2 \/ DoS8 \/ DoOther

AddByte(pkts, b) ==
    [pkts EXCEPT ![Len(pkts)].bytes = Append(@, b)]
LeaveOpen(pkts) == pkts
CloseLast(pkts) ==
    [pkts EXCEPT ![Len(pkts)].closed = TRUE]

\* the test that keeps a packet within the packet size
NoRoomTest(cnt, pkt_size) == (cnt + 6) <= pkt_size
HasRoom(cnt, pkt_size) == (cnt + 6) < pkt_size

\* lines 369-375: one payload byte is written to the open array
S2Write ==
    /\ pc = "s2loop"
    /\ HasRoom(write_cnt, packet_size)
    /\ rec_len > -MaxUnderrun
    /\ write_cnt' = write_cnt + 1
    /\ out' = AddByte(out, (offset_cnt \div 2) + 1)
    /\ offset_cnt' = offset_cnt + 2
    /\ rec_len' = rec_len - 1
    /\ pc' = IF rec_len' # 0 THEN "s2loop" ELSE "s2close"
    /\ UNCHANGED mainVars
    /\ UNCHANGED atohVars
    /\ UNCHANGED <<exit_status, ret, err, header, mem_space, line, line_off, eof,
                   s2_lines, last_s0, named, tmp_address>>

\* lines 377-503: the array is closed and a continuation packet is opened
S2Split ==
    /\ pc = "s2loop"
    /\ ~HasRoom(write_cnt, packet_size)
    /\ LET address == FmtX(NewAddress(tmp_address, write_cnt), 6) IN
         /\ write_cnt' = 0
         /\ tmp_address' = address
         /\ IF KnownSpace(mem_space)
            THEN /\ out' = Append(CloseLast(out),
                                  Packet(mem_space, address, rec_len,
                                         NextWords(rec_len, packet_size), packet_size))
                 /\ pc' = IF rec_len # 0 THEN "s2loop" ELSE "s2close"
                 /\ UNCHANGED <<ret, err>>
            ELSE /\ out' = CloseLast(out)
                 /\ ret' = -1 /\ err' = "memspace" /\ pc' = "closing"
    /\ UNCHANGED mainVars
    /\ UNCHANGED atohVars
    /\ UNCHANGED <<exit_status, header, mem_space, line, line_off, eof,
                   s2_lines, last_s0, named, rec_len, offset_cnt>>

\* lines 505-511 and 525-529: the record is finished and its last array closed
S2Close ==
    /\ pc = "s2close"
    /\ out' = CloseLast(out)
    /\ pc' = LoopExit(eof)
    /\ ret' = 0
    /\ UNCHANGED mainVars
    /\ UNCHANGED atohVars
    /\ UNCHANGED <<exit_status, err, header, mem_space, line, line_off, eof,
                   s2_lines, last_s0, named>>
    /\ UNCHANGED loopVars

\* main, lines 151-155: the result of buildIncFile is not looked at
MainReturn ==
    /\ pc = "closing"
    /\ in_open' = FALSE
    /\ out_open' = FALSE
    /\ exit_status' = 0
    /\ pc' = "done"
    /\ UNCHANGED <<argv, packet_size, n_raw, n_flag, i_flag, o_flag>>
    /\ UNCHANGED buildVars
    /\ UNCHANGED atohVars

Next == ArgN \/ ArgI \/ ArgO \/ ArgUnknown \/ CheckFlags
        \/ BuildStart \/ ReadS0 \/ ReadS8 \/ ReadOther \/ ReadS2 \/ ReadNothing
        \/ S2Write \/ S2Split \/ S2Close \/ MainReturn

Spec == Init /\ [][Next]_vars

----------------------------------------------------------------------------
(* End-to-end scenario 1: the lines of the scenario in any order and number *)

\* the command lines that run with packet size 18, and one with packet size 9
ArgvScenario1 == {<<Arg("I", <<>>, TRUE)>>,
                  <<Arg("N", <<"1", "2">>, FALSE), Arg("I", <<>>, TRUE)>>,
                  <<Arg("I", <<>>, TRUE), Arg("N", <<"9">>, FALSE)>>}
InitScenario1 == InitWith(ArgvScenario1)

Scenario1ReadS0 ==
    /\ \E l \in {Scenario1S0, Scenario1Y}, last \in BOOLEAN : ExtractLine(l, last)
    /\ DoS0
Scenario1ReadS2 ==
    /\ nS2 < MaxScenarioRecs
    /\ \E last \in BOOLEAN : ExtractLine(Scenario1S2, last)
    /\ DoS2
Scenario1ReadS8 == (\E last \in BOOLEAN : ExtractLine(S8Line, last)) /\ DoS8

NextScenario1 == ArgN \/ ArgI \/ CheckFlags \/ BuildStart
                 \/ Scenario1ReadS0 \/ Scenario1ReadS2 \/ Scenario1ReadS8 \/ ReadNothing
                 \/ S2Write \/ S2Split \/ S2Close \/ MainReturn

SpecScenario1 == InitScenario1 /\ [][NextScenario1]_vars

----------------------------------------------------------------------------
(* atoh<T>() on its own: one call for each string and each width *)

\* hex digits of both cases; runs of them start at three places of this text
AtohAlphabet == <<"1","2","3","4","5","6","7","8","9","a","b","c","d","e","f",
                  "A","B","C","D","E","F","0">>
AtohRun(k, n) == [i \in 1..n |-> AtohAlphabet[((k + i - 1) % Len(AtohAlphabet)) + 1]]

\* what follows the run: nothing, or a character that is no hex digit and then
\* possibly more hex digits
AtohTails == {<<>>, <<"g">>, <<"G", "1">>, <<" ", "F", "F">>}

AtohStrings == {AtohRun(k, n) \o tail :
                    k \in {0, 8, 21}, n \in 0..MaxAtohDigits, tail \in AtohTails}

\* sizeof(T) of the explicit instantiations uint8_t, uint16_t, uint32_t, uint64_t
AtohSizes == {1, 2, 4, 8}

InitAtoh ==
    /\ InitProgram({<<>>})
    /\ atoh_string \in AtohStrings
    /\ atoh_bytes \in AtohSizes
    /\ atoh_value = <<>>

AtohCall ==
    /\ atoh_value = <<>>
    /\ atoh_value' = atoh(atoh_string, atoh_bytes)
    /\ UNCHANGED <<atoh_string, atoh_bytes>>
    /\ UNCHANGED <<pc, exit_status>>
    /\ UNCHANGED mainVars
    /\ UNCHANGED buildVars

NextAtoh == AtohCall

SpecAtoh == InitAtoh /\ [][NextAtoh]_vars

----------------------------------------------------------------------------
(* Properties *)

\* the payload length the byte count field of an S2 line declares
PayloadLen(l) == Sscanf(l.len, 0) - 4

\* the packets written for the r-th S2 line of the input, in output order
RecPackets(r) == SelectSeq(out, LAMBDA p : p.rec = r)

\* the payload bytes written for the r-th S2 line, over all its packets
RECURSIVE Concat(_)
Concat(pkts) == IF pkts = <<>> THEN <<>> ELSE Head(pkts).bytes \o Concat(Tail(pkts))
Payload(r) == Concat(RecPackets(r))

Iota(n) == [k \in 1..n |-> k]
Ceil(a, b) == (a + b - 1) \div b

\* the value of the three address bytes of a packet
AddrVal(a) == NatOf([i \in 1..Len(a) |-> DigitOf(a[i])])

\* the r-th S2 line was emitted and the loop has left it
Finished(r) ==
    /\ r \in 1..nS2
    /\ RecPackets(r) # <<>>
    /\ (r < nS2 \/ pc \notin {"s2loop", "s2close"})

\* C1: a finished S2 record with payload length L >= 1 has its L payload bytes
\* written once each and in input order over its packets, in ceil(L / (P-6))
\* packets when L > P-6 and in one packet otherwise.
C1_PayloadSplit ==
    \A r \in 1..nS2 :
        LET L == PayloadLen(s2_lines[r]) IN
        (Finished(r) /\ L >= 1) =>
            /\ Payload(r) = Iota(L)
            /\ Len(RecPackets(r)) = IF L > packet_size - 6
                                    THEN Ceil(L, packet_size - 6) ELSE 1

C1_Witness ==
    \E r \in 1..nS2 :
        /\ Finished(r)
        /\ packet_size = 9
        /\ PayloadLen(s2_lines[r]) = 13
        /\ Len(RecPackets(r)) = 5
        /\ Payload(r) = Iota(13)

\* C2: within one S2 record, the address bytes of a continuation packet have the
\* value of the address bytes of the packet before it plus the number of 24-bit
\* words that packet wrote.
C2_ContinuationAddress ==
    \A i \in 1..(Len(out) - 1) :
        out[i].rec = out[i + 1].rec =>
            AddrVal(out[i + 1].addr) = AddrVal(out[i].addr) + (Len(out[i].bytes) \div 3)

\* C3: the length constant of every closed packet is the number of byte literals
\* of its array (three header bytes, three address bytes, the payload bytes), and
\* is at most the packet size.
C3_LenConstant ==
    \A i \in 1..Len(out) :
        out[i].closed =>
            /\ out[i].len = 6 + Len(out[i].bytes)
            /\ out[i].len <= packet_size

\* C4: while an S2 record is emitted after an S0 record with code 01, 02 or 04
\* and no S8 or unsupported line in between, the tracked space is that of the S0
\* record and every packet of the S2 record has its header byte and name prefix.
C4_SpaceOfPacket ==
    \A c \in {<<<<"0", "1">>, 1, "0xC5", "PPP_X">>,
              <<<<"0", "2">>, 2, "0xC6", "PPP_Y">>,
              <<<<"0", "4">>, 4, "0xC4", "PPP_P">>} :
        (pc \in {"s2loop", "s2close"} /\ last_s0 = c[1]) =>
            /\ mem_space = c[2]
            /\ \A i \in 1..Len(out) :
                   out[i].rec = nS2 => out[i].hdr = c[3] /\ out[i].prefix = c[4]

C4_Witness ==
    /\ pc = "s2close"
    /\ last_s0 = <<"0", "2">>
    /\ nS2 = 2
    /\ RecPackets(1) # <<>>
    /\ Len(RecPackets(2)) >= 2
    /\ \A i \in 1..Len(out) : out[i].hdr = "0xC6" /\ out[i].prefix = "PPP_Y"

\* C5: the step that reads an S2 line while the tracked memory space is none of
\* X, Y, P makes buildIncFile return -1 with an error, writes nothing, and leaves
\* the output as it was; once buildIncFile has returned, no line is read and
\* nothing is written.
C5_UnknownSpaceFatal ==
    [][ /\ (pc = "read" /\ s2_lines' # s2_lines /\ mem_space \notin {1, 2, 4}) =>
               /\ ret' = -1
               /\ err' \in {"memspace", "alloc"}
               /\ pc' = "closing"
               /\ out' = out
        /\ (pc \in {"closing", "done"}) =>
               /\ out' = out
               /\ s2_lines' = s2_lines
               /\ pc' = "done" ]_vars

C5_Witness ==
    /\ pc = "done"
    /\ err = "memspace"
    /\ ret = -1
    /\ nS2 = 2
    /\ Len(RecPackets(1)) >= 2
    /\ RecPackets(2) = <<>>
    /\ \A i \in 1..Len(out) : out[i].closed

\* C6: the tracked memory space is 0 (unknown) until the first line is read and
\* after every S8 and unsupported line; an S2 line read when no S0 line naming a
\* space came since the start or since the last such line is not emitted, and
\* buildIncFile returns -1.
C6_ResetToUnknown ==
    /\ (pc \in {"args", "build"} \/ (pc = "read" /\ line = NoLine)) => mem_space = 0
    /\ line.type \in {"S8", "other"} => mem_space = 0
    /\ (line.type = "S2" /\ ~named) =>
           /\ mem_space \notin {1, 2, 4}
           /\ RecPackets(nS2) = <<>>
           /\ pc \in {"closing", "done"}
           /\ ret = -1

C6_Witness ==
    /\ line.type = "S2"
    /\ ~named
    /\ mem_space = 0
    /\ err = "memspace"
    /\ nS2 = 2
    /\ RecPackets(1) # <<>>
    /\ pc = "closing"

\* C7: when buildIncFile returned -1, the process ends with a non-zero status.
C7_FailureExitStatus == (pc = "done" /\ ret = -1) => exit_status # 0

\* C8: an S2 record whose byte count field is at most 4 gets exactly one
\* packet, and no payload byte is written to it.
C8_EmptyPayload ==
    \A i \in 1..Len(out) :
        PayloadLen(s2_lines[out[i].rec]) <= 0 =>
            /\ out[i].bytes = <<>>
            /\ Len(RecPackets(out[i].rec)) = 1

\* C9 (as stated): in a run whose -N value is not divisible by 3, buildIncFile
\* is not entered.
C9_BadSizeRejected == n_flag = "FLAG_FAILED" => pc \in {"args", "exit"}

\* C9 (amended): a -N value that is not divisible by 3 is replaced by the default
\* packet size 18, and every packet written in such a run is within that size.
C9_BadSizeDefaulted ==
    n_flag = "FLAG_FAILED" =>
        /\ packet_size = 18
        /\ CRem(n_raw, 3) # 0
        /\ \A i \in 1..Len(out) : out[i].len <= 18

C9_Witness ==
    /\ n_flag = "FLAG_FAILED"
    /\ pc = "done"
    /\ ret = 0
    /\ \E i \in 1..Len(out) : out[i].closed /\ out[i].len = 18

\* C10: whatever the -N string, and without -N, the packet size buildIncFile is
\* called with is positive, a multiple of 3 and at least 9.
C10_PacketSizeValid ==
    pc = "build" => packet_size > 0 /\ packet_size % 3 = 0 /\ packet_size >= 9

C10_Witness ==
    /\ pc = "build"
    /\ n_flag = "FLAG_OK"
    /\ n_raw < 0
    /\ CRem(n_raw, 3) = 0
    /\ packet_size = 18

\* the number a digit string denotes when read in decimal, the notation of the
\* usage text ("Default = 18 (min. is 9)", "-N18")
RECURSIVE DecOf(_)
DecOf(str) == IF str = <<>> THEN 0
              ELSE DecOf(SubSeq(str, 1, Len(str) - 1)) * 10 + DigitOf(str[Len(str)])
IsDecimal(str) == \A i \in 1..Len(str) : DigitOf(str[i]) \in 0..9

\* the digits given with -N, without leading zeros (main keeps their hex value)
NDigits == HexStr(n_raw)

\* C11: when -N is given with a decimal number that is divisible by 3 and at
\* least 9, buildIncFile is called with that number as the packet size.
C11_SizeAsWritten ==
    (/\ pc = "build"
     /\ n_flag # "FLAG_NOT_PRESENT"
     /\ n_raw >= 0
     /\ IsDecimal(NDigits)
     /\ DecOf(NDigits) % 3 = 0
     /\ DecOf(NDigits) >= 9) => packet_size = DecOf(NDigits)

\* the one packet scenario 1 expects: PPP_Y1234_LEN = 12 and the array PPP_Y1234
\* with 0xC6,0x00,0x03, the address 0x00,0x12,0x34 and the payload bytes 00 to 09
Scenario1Expected ==
    <<[prefix |-> "PPP_Y", suffix |-> <<"1", "2", "3", "4">>, len |-> 12,
       hdr |-> "0xC6", wc |-> <<"0", "3">>, addr |-> Addr0,
       bytes |-> Iota(10), closed |-> TRUE, rec |-> 1]>>

\* the input read so far is the S0 line of scenario 1 (possibly repeated) and
\* then, last, its S2 line
Scenario1Given ==
    /\ s2_lines = <<Scenario1S2>>
    /\ line = Scenario1S2
    /\ last_s0 = Scenario1S0.code
    /\ ~named
    /\ packet_size = 18

\* the same with the S0 line that has 02 at the place of the memory space
Scenario1InY ==
    /\ s2_lines = <<Scenario1S2>>
    /\ line = Scenario1S2
    /\ last_s0 = Scenario1Y.code
    /\ packet_size = 18

\* C12 (as stated): the run of scenario 1 ends with exactly the one packet
\* PPP_Y1234 of length 12 in the output.
C12_Scenario1Output == (Scenario1Given /\ pc = "done") => out = Scenario1Expected

\* C12 (amended): the S0 line of scenario 1 has 00 where the memory space is
\* read, so its S2 line is fatal and nothing is written; after an S0 line with
\* 02 there, the S2 line, whose count field declares 17 payload bytes, gives
\* PPP_Y1234 (length 18, word count 04, 12 bytes) and PPP_Y1238 (length 11,
\* word count 01, 5 bytes).
C12_Scenario1Fatal ==
    /\ Scenario1Given =>
           /\ out = <<>>
           /\ ret = -1
           /\ err \in {"memspace", "alloc"}
           /\ pc \in {"closing", "done"}
    /\ (Scenario1InY /\ pc = "done" /\ err # "alloc") =>
           /\ ret = 0
           /\ Len(out) = 2
           /\ out[1] = [prefix |-> "PPP_Y", suffix |-> <<"1", "2", "3", "4">>, len |-> 18,
                        hdr |-> "0xC6", wc |-> <<"0", "4">>, addr |-> Addr0,
                        bytes |-> Iota(12), closed |-> TRUE, rec |-> 1]
           /\ out[2] = [prefix |-> "PPP_Y", suffix |-> <<"1", "2", "3", "8">>, len |-> 11,
                        hdr |-> "0xC6", wc |-> <<"0", "1">>,
                        addr |-> <<"0", "0", "1", "2", "3", "8">>,
                        bytes |-> [k \in 1..5 |-> 12 + k], closed |-> TRUE, rec |-> 1]

C12_Witness ==
    /\ Scenario1Given
    /\ pc = "done"
    /\ err = "memspace"
    /\ out = <<>>
    /\ n_flag = "FLAG_NOT_PRESENT"

\* C13: the output after the static header is a sequence of packets in input
\* order; every packet but the last is closed, the last one is open only while
\* its record is being written, and none is open once buildIncFile has returned.
C13_WellFormedOutput ==
    /\ out # <<>> => header
    /\ \A i \in 1..(Len(out) - 1) : out[i].closed /\ out[i].rec <= out[i + 1].rec
    /\ (out # <<>> /\ ~out[Len(out)].closed) =>
           pc \in {"s2loop", "s2close"} /\ out[Len(out)].rec = nS2
    /\ pc \in {"closing", "done"} => \A i \in 1..Len(out) : out[i].closed

C13_Witness ==
    /\ pc = "closing"
    /\ ret = 0
    /\ nS2 = 2
    /\ Len(RecPackets(1)) >= 2
    /\ RecPackets(2) # <<>>
    /\ \A i \in 1..Len(out) : out[i].closed

\* the value of the word-count byte of a packet (third header byte)
WordCountOf(p) == AddrVal(p.wc)

\* C14: every closed packet of an S2 record with payload length >= 1 has a
\* word-count byte of at least 1 and holds exactly three payload bytes per word.
C14_WordCount ==
    \A i \in 1..Len(out) :
        (out[i].closed /\ PayloadLen(s2_lines[out[i].rec]) >= 1) =>
            /\ WordCountOf(out[i]) >= 1
            /\ Len(out[i].bytes) = 3 * WordCountOf(out[i])

\* a digit string without its leading '0' characters
RECURSIVE StripZeros(_)
StripZeros(str) == IF str # <<>> /\ Head(str) = "0" THEN StripZeros(Tail(str)) ELSE str

\* C15: the name suffix of every packet is the text of its three address bytes
\* (six hex digits) without the leading '0' characters.
C15_NameSuffix ==
    \A i \in 1..Len(out) : out[i].suffix = StripZeros(out[i].addr)

\* the memory space fields that name X, Y and P
ValidCodes == {<<"0", "1">>, <<"0", "2">>, <<"0", "4">>}

\* C16: an S2 line read when the last S0 line before it (with no S8 or
\* unsupported line in between) has a field other than 01, 02 and 04 is not
\* emitted, and buildIncFile returns -1.
C16_InvalidCodeFatal ==
    (line.type = "S2" /\ last_s0 # <<>> /\ last_s0 \notin ValidCodes) =>
        /\ RecPackets(nS2) = <<>>
        /\ pc \in {"closing", "done"}
        /\ ret = -1

\* the digits of the first n characters of the leading hex run of a string, in
\* a field of w digits
Leading(str, w) ==
    LET run == HexRun(str)
        n == IF Len(run) < w THEN Len(run) ELSE w
    IN  [i \in 1..(w - n) |-> 0] \o SubSeq(run, 1, n)

\* C17: atoh<T>(s) returns the number denoted by the first min(k, width/4)
\* characters of s, k the length of the leading run of hex digits; the value is
\* within the width, and 0 when s is empty or starts with another character.
C17_AtohValue ==
    atoh_value # <<>> =>
        /\ atoh_value = Leading(atoh_string, 2 * atoh_bytes)
        /\ Len(atoh_value) = 2 * atoh_bytes
        /\ \A i \in 1..Len(atoh_value) : atoh_value[i] \in 0..15
        /\ atoh_bytes = 1 => NatOf(atoh_value) <= 255
        /\ HexRun(atoh_string) = <<>> => atoh_value = Zero(8 * atoh_bytes)

C17_Witness ==
    /\ atoh_bytes = 1
    /\ Len(HexRun(atoh_string)) >= 3
    /\ Len(atoh_string) > Len(HexRun(atoh_string))
    /\ atoh_value = <<9, 10>>

\* C18: at the start of every iteration of the read loop the line cursor is at
\* the base of the line buffer.
C18_CursorAtBase == pc = "read" => line_off = 0

\* C19: no packet is written in an iteration of the read loop that extracted no
\* line: every packet belongs to an S2 line of the input, and when buildIncFile
\* has returned 0 every S2 line has its packets, with its payload bytes written
\* once.
C19_EachLineOnce ==
    /\ \A i \in 1..Len(out) : out[i].rec \in 1..nS2
    /\ (pc \in {"closing", "done"} /\ ret = 0) =>
           \A r \in 1..nS2 :
               /\ RecPackets(r) # <<>>
               /\ PayloadLen(s2_lines[r]) >= 1 => Payload(r) = Iota(PayloadLen(s2_lines[r]))

C19_Witness ==
    /\ pc = "done"
    /\ ret = 0
    /\ eof
    /\ nS2 = 2
    /\ line = OtherLine
    /\ last_s0 \in ValidCodes
    /\ mem_space = 0

====
